---------------------------- MODULE Spec2Model ----------------------------
(***************************************************************************)
(* PixelSync: the storage/database reconciliation ("sync") engine of       *)
(* server/api/src/index.js, POST /sync, with the images table of           *)
(* server/db/init.sql and the storage directory it scans, and the handlers *)
(* that write into both: POST /upload, /upload/batch and /images/:id/crop. *)
(*                                                                         *)
(* File names and paths are sequences of one-character strings, so that    *)
(* the extension filter (a regular expression), path.extname,              *)
(* toLowerCase and path.join are computed as the code computes them.       *)
(***************************************************************************)
EXTENDS Integers, Sequences, FiniteSets, TLC

VARIABLES
    disk,           \* storage root: file name -> content ("none" = no such file)
    store,          \* the images table: a set of rows
    now,            \* the database clock read by DEFAULT NOW()
    pc,             \* per request: where the /sync handler stands
    dbRows,         \* per request: const dbRows (snapshot of the table)
    diskFiles,      \* per request: const diskFiles (names listed and kept)
    diskTodo,       \* per request: files the adoption loop has not reached
    rowsTodo,       \* per request: rows the presence loop has not reached
    addedFromDisk,  \* per request: let addedFromDisk
    markedMissing,  \* per request: let markedMissing
    healed,         \* per request: let healed
    response,       \* per request: what res.json / res.status(500).json sent
    before,         \* history: table and directory when the request arrived
    streak,         \* history: successful runs in a row with no outside change
    writes          \* the files /upload, /upload/batch and /images/:id/crop
                    \* have written and not given up, each with how far its
                    \* request has got

vars == <<disk, store, now, pc, dbRows, diskFiles, diskTodo, rowsTodo,
          addedFromDisk, markedMissing, healed, response, before, streak,
          writes>>

-----------------------------------------------------------------------------
(* Bounds of the model *)

\* At most this many distinct file names are ever in play (on disk or in a row).
MaxPaths == 2

\* The run counter of the history variable streak stops here.
MaxStreak == 3

\* Upload and crop requests are accepted while the clock is at most this.
MaxClock == 2

-----------------------------------------------------------------------------
(* The file names and contents the directory draws from *)

A_PNG     == <<"a", ".", "p", "n", "g">>
B_JPG     == <<"b", ".", "j", "p", "g">>
C_TIF     == <<"c", ".", "t", "i", "f">>
DOT_PNG   == <<".", "p", "n", "g">>
NOTES_TXT == <<"n", "o", "t", "e", "s", ".", "t", "x", "t">>

Names == {A_PNG, B_JPG, C_TIF, DOT_PNG, NOTES_TXT}

\* What a file holds, as far as the handler can tell: bytes sharp can decode,
\* or bytes it cannot.
Contents == {"ok", "bad"}

Procs == {1, 2}

\* SQL NULL / JavaScript null in a numeric column.
Null == 0

-----------------------------------------------------------------------------
(* Strings *)

UpperChars == <<"A", "B", "C", "D", "E", "F", "G", "H", "I", "J", "K", "L", "M",
                "N", "O", "P", "Q", "R", "S", "T", "U", "V", "W", "X", "Y", "Z">>
LowerChars == <<"a", "b", "c", "d", "e", "f", "g", "h", "i", "j", "k", "l", "m",
                "n", "o", "p", "q", "r", "s", "t", "u", "v", "w", "x", "y", "z">>

ToLowerChar(c) ==
    IF \E i \in 1..26 : UpperChars[i] = c
    THEN LowerChars[CHOOSE i \in 1..26 : UpperChars[i] = c]
    ELSE c

\* String.prototype.toLowerCase
toLowerCase(s) == [i \in 1..Len(s) |-> ToLowerChar(s[i])]

\* The alternation (png|jpe?g|tiff?) matched against the whole of s,
\* s already folded to lower case (the /i flag).
MatchesAlternation(s) ==
    \/ s = <<"p", "n", "g">>
    \/ /\ Len(s) >= 3
       /\ SubSeq(s, 1, 2) = <<"j", "p">>
       /\ SubSeq(s, 3, Len(s)) \in {<<"g">>, <<"e", "g">>}
    \/ /\ Len(s) >= 3
       /\ SubSeq(s, 1, 3) = <<"t", "i", "f">>
       /\ SubSeq(s, 4, Len(s)) \in {<<>>, <<"f">>}

\* A filter that would also let text files through.
RegexTest_txt(name) ==
    \E i \in 1..Len(name) :
        /\ name[i] = "."
        /\ \/ MatchesAlternation(toLowerCase(SubSeq(name, i + 1, Len(name))))
           \/ toLowerCase(SubSeq(name, i + 1, Len(name))) = <<"t", "x", "t">>

\* /\.(png|jpe?g|tiff?)$/i.test(name): a dot, then one of the alternatives,
\* then the end of the name.
RegexTest(name) ==
    \E i \in 1..Len(name) :
        /\ name[i] = "."
        /\ MatchesAlternation(toLowerCase(SubSeq(name, i + 1, Len(name))))

\* The index of the last "." of a name, 0 when it has none.
LastDot(name) ==
    IF \E i \in 1..Len(name) : name[i] = "."
    THEN CHOOSE i \in 1..Len(name) :
            /\ name[i] = "."
            /\ \A j \in (i + 1)..Len(name) : name[j] # "."
    ELSE 0

\* path.extname on a name without separators: the text from the last dot on;
\* empty when there is no dot, when nothing stands before the last dot (a
\* dot-file such as ".png"), and for "..".
extname(name) ==
    LET d == LastDot(name) IN
    IF \/ d = 0
       \/ d = 1
       \/ name = <<".", ".">>
    THEN <<>>
    ELSE SubSeq(name, d, Len(name))

storageRoot == <<"/", "s">>

\* path.join(storageRoot, name)
fullPath(name) == storageRoot \o <<"/">> \o name

-----------------------------------------------------------------------------
(* The file system, as the handler reads it *)

NoFiles == [n \in Names |-> "none"]

\* fs.readdirSync(storageRoot): the names present in directory d.
readdirSync(d) == {n \in DOMAIN d : d[n] # "none"}

\* fs.existsSync(p) on directory d.
existsSync(d, p) == \E n \in DOMAIN d : d[n] # "none" /\ fullPath(n) = p

\* fs.statSync(p).size: the byte length of the content.
statSize(content) == IF content = "ok" THEN 10 ELSE 7

\* An inspector whose catch block reports the file as sound.
analyzeImage_trusting(content) ==
    IF content = "ok"
    THEN [width |-> 4, height |-> 3, isCorrupted |-> FALSE]
    ELSE [width |-> Null, height |-> Null, isCorrupted |-> FALSE]

\* sharp(filePath).metadata() resolves for decodable bytes and rejects for the
\* rest; analyzeImage turns the rejection into a verdict.
analyzeImage(content) ==
    IF content = "ok"
    THEN [width |-> 4, height |-> 3, isCorrupted |-> FALSE]
    ELSE [width |-> Null, height |-> Null, isCorrupted |-> TRUE]

\* An inspector without its try/catch: the rejection of sharp reaches the caller.
analyzeImageThrows_uncaught(content) == content = "bad"

\* Whether analyzeImage throws to its caller: the whole body is inside
\* try { ... } catch (err) { return {...} }, so it never does.
analyzeImageThrows(content) == FALSE

\* const diskFiles = readdirSync(...).filter(name => regex.test(name))
ListDiskFiles(d) == {n \in readdirSync(d) : RegexTest(n)}

\* let mime = "image/jpeg"; if (ext === ".png") ...; if (ext === ".tif" || ...)
InferMime(name) ==
    LET ext  == toLowerCase(extname(name))
        m0   == "image/jpeg"
        m1   == IF ext = <<".", "p", "n", "g">> THEN "image/png" ELSE m0
    IN  IF ext = <<".", "t", "i", "f">> \/ ext = <<".", "t", "i", "f", "f">>
        THEN "image/tiff"
        ELSE m1

-----------------------------------------------------------------------------
(* The images table *)

MaxOf(S) == CHOOSE x \in S : \A y \in S : y <= x

\* id UUID DEFAULT gen_random_uuid(): a value no row of the table has.
FreshId(s) == IF s = {} THEN 1 ELSE MaxOf({r.id : r \in s}) + 1

\* A row of CREATE TABLE images (checksum, never written, left out);
\* created_at and updated_at both DEFAULT NOW().
Row(id, filename, mime, size, width, height, path, corrupted, ts) ==
    [id           |-> id,
     filename     |-> filename,
     mime_type    |-> mime,
     size_bytes   |-> size,
     width        |-> width,
     height       |-> height,
     storage_path |-> path,
     is_corrupted |-> corrupted,
     created_at   |-> ts,
     updated_at   |-> ts]

\* INSERT INTO images (filename, mime_type, size_bytes, width, height,
\* storage_path, is_corrupted): the row the table stores, the other columns
\* at their defaults. The table declares no constraint on storage_path.
InsertRow(s, filename, mime, size, width, height, path, corrupted) ==
    s \cup {Row(FreshId(s), filename, mime, size, width, height, path,
                corrupted, now)}

\* SELECT id, filename, storage_path, is_corrupted FROM images
SelectSnapshot(s) ==
    {[id           |-> r.id,
      filename     |-> r.filename,
      storage_path |-> r.storage_path,
      is_corrupted |-> r.is_corrupted] : r \in s}

\* UPDATE images SET is_corrupted = v WHERE id = $1
SetCorrupted(s, id, v) ==
    {IF r.id = id THEN [r EXCEPT !.is_corrupted = v] ELSE r : r \in s}

-----------------------------------------------------------------------------
(* The pieces of the two passes *)

\* An adoption pass that skips the lookup and takes every file for an orphan.
existsInDb_never(rows, name) == FALSE

\* A lookup that asks the table as it is now instead of the snapshot.
existsInDb_live(rows, name) ==
    \E r \in store : r.storage_path = fullPath(name)

\* An adoption loop that passes over a listed file that is no longer there.
existsInDb_orGone(rows, name) ==
    \/ \E r \in rows : r.storage_path = fullPath(name)
    \/ disk[name] = "none"

\* const existsInDb = dbRows.some(r => r.storage_path === file.fullPath)
existsInDb(rows, name) == \E r \in rows : r.storage_path = fullPath(name)

\* The body of the adoption loop for an orphan: stat, infer the mime type,
\* inspect, insert.
AdoptFile(s, name, content) ==
    LET analysis == analyzeImage(content) IN
    InsertRow(s, name, InferMime(name), statSize(content),
              analysis.width, analysis.height, fullPath(name),
              analysis.isCorrupted)

\* A handler that tidies the directory while it adopts.
DiskAfterAdopt_unlinksBad(d, name) ==
    IF d[name] = "bad" THEN [d EXCEPT ![name] = "none"] ELSE d

\* statSync and sharp(...).metadata() read the file; nothing is written.
DiskAfterAdopt(d, name) == d

\* A presence pass that flags a missing file every run.
NeedsFlag_everyRun(existsOnDisk, row) == ~existsOnDisk

\* A presence pass that never flags.
NeedsFlag_never(existsOnDisk, row) == FALSE

\* if (!existsOnDisk && !row.is_corrupted)
NeedsFlag(existsOnDisk, row) == ~existsOnDisk /\ ~row.is_corrupted

\* if (existsOnDisk && row.is_corrupted)
NeedsHeal(existsOnDisk, row) == existsOnDisk /\ row.is_corrupted

\* A flagging that deletes the row of a vanished file.
FlagMissing_deletes(s, row) == {r \in s : r.id # row.id}

\* A flagging that also forgets the dimensions of the vanished file.
FlagMissing_clearsDims(s, row) ==
    {IF r.id = row.id
     THEN [r EXCEPT !.is_corrupted = TRUE, !.width = Null, !.height = Null]
     ELSE r : r \in s}

\* UPDATE images SET is_corrupted = true WHERE id = row.id
FlagMissing(s, row) == SetCorrupted(s, row.id, TRUE)

\* A heal that inspects the restored file again and stores what it finds.
Heal_reanalyses(s, row) ==
    {IF r.id = row.id
     THEN LET n == CHOOSE m \in DOMAIN disk : fullPath(m) = row.storage_path
              a == analyzeImage(disk[n])
          IN  [r EXCEPT !.is_corrupted = FALSE, !.width = a.width,
                        !.height = a.height]
     ELSE r : r \in s}

\* A heal that asks the inspector and clears the flag only of a file it
\* can decode.
Heal_ifDecodable(s, row) ==
    LET n == CHOOSE m \in DOMAIN disk : fullPath(m) = row.storage_path
    IN  SetCorrupted(s, row.id, analyzeImage(disk[n]).isCorrupted)

\* UPDATE images SET is_corrupted = false WHERE id = row.id
Heal(s, row) == SetCorrupted(s, row.id, FALSE)

-----------------------------------------------------------------------------
(* The state after the server has started: an empty table, an empty storage *)
(* root (mkdirSync), no request in flight.                                   *)

NoResponse == [status |-> 0]
NoHistory  == [store |-> {}, disk |-> NoFiles]

Init ==
    /\ disk = NoFiles
    /\ store = {}
    /\ now = 1
    /\ pc = [p \in Procs |-> "idle"]
    /\ dbRows = [p \in Procs |-> {}]
    /\ diskFiles = [p \in Procs |-> {}]
    /\ diskTodo = [p \in Procs |-> {}]
    /\ rowsTodo = [p \in Procs |-> {}]
    /\ addedFromDisk = [p \in Procs |-> 0]
    /\ markedMissing = [p \in Procs |-> 0]
    /\ healed = [p \in Procs |-> 0]
    /\ response = [p \in Procs |-> NoResponse]
    /\ before = [p \in Procs |-> NoHistory]
    /\ streak = 0
    /\ writes = {}

-----------------------------------------------------------------------------
(* POST /sync, one action per stretch of the handler *)

\* A handler that runs the presence loop first.
Goto_presenceFirst(files, rows) ==
    IF rows # {} THEN "presence"
    ELSE IF files # {} THEN "adopt"
    ELSE "respond"

\* Where the handler goes once the loops have these elements left.
Goto(files, rows) ==
    IF files # {} THEN "adopt"
    ELSE IF rows # {} THEN "presence"
    ELSE "respond"

\* The handler returns: its locals are gone.
Return(p) ==
    /\ dbRows' = [dbRows EXCEPT ![p] = {}]
    /\ diskFiles' = [diskFiles EXCEPT ![p] = {}]
    /\ diskTodo' = [diskTodo EXCEPT ![p] = {}]
    /\ rowsTodo' = [rowsTodo EXCEPT ![p] = {}]
    /\ addedFromDisk' = [addedFromDisk EXCEPT ![p] = 0]
    /\ markedMissing' = [markedMissing EXCEPT ![p] = 0]
    /\ healed' = [healed EXCEPT ![p] = 0]

\* The request arrives: the handler's locals are fresh.
SyncStart(p) ==
    /\ pc[p] \in {"idle", "done", "failed"}
    /\ pc' = [pc EXCEPT ![p] = "query"]
    /\ dbRows' = [dbRows EXCEPT ![p] = {}]
    /\ diskFiles' = [diskFiles EXCEPT ![p] = {}]
    /\ diskTodo' = [diskTodo EXCEPT ![p] = {}]
    /\ rowsTodo' = [rowsTodo EXCEPT ![p] = {}]
    /\ addedFromDisk' = [addedFromDisk EXCEPT ![p] = 0]
    /\ markedMissing' = [markedMissing EXCEPT ![p] = 0]
    /\ healed' = [healed EXCEPT ![p] = 0]
    /\ response' = [response EXCEPT ![p] = NoResponse]
    /\ before' = [before EXCEPT ![p] = [store |-> store, disk |-> disk]]
    /\ UNCHANGED <<disk, store, now, streak, writes>>

\* const dbRows = (await pool.query("SELECT ...")).rows
SyncQuery(p) ==
    /\ pc[p] = "query"
    /\ dbRows' = [dbRows EXCEPT ![p] = SelectSnapshot(store)]
    /\ pc' = [pc EXCEPT ![p] = "list"]
    /\ UNCHANGED <<disk, store, now, diskFiles, diskTodo, rowsTodo,
                   addedFromDisk, markedMissing, healed, response, before,
                   streak, writes>>

\* const diskFiles = fs.readdirSync(storageRoot).filter(...).map(...)
\* Both loops run over what was fetched; the order in which readdir and the
\* SELECT return their elements is not fixed, so each loop takes any element
\* it has not reached yet.
SyncList(p) ==
    /\ pc[p] = "list"
    /\ diskFiles' = [diskFiles EXCEPT ![p] = ListDiskFiles(disk)]
    /\ diskTodo' = [diskTodo EXCEPT ![p] = ListDiskFiles(disk)]
    /\ rowsTodo' = [rowsTodo EXCEPT ![p] = dbRows[p]]
    /\ pc' = [pc EXCEPT ![p] = Goto(ListDiskFiles(disk), dbRows[p])]
    /\ UNCHANGED <<disk, store, now, dbRows, addedFromDisk, markedMissing,
                   healed, response, before, streak, writes>>

\* One iteration of: for (const file of diskFiles) { if (!existsInDb) {...} }
SyncAdopt(p) ==
    /\ pc[p] = "adopt"
    /\ \E f \in diskTodo[p] :
        /\ IF existsInDb(dbRows[p], f)
           THEN UNCHANGED <<disk, store, now, addedFromDisk>>
           ELSE /\ disk[f] # "none"
                /\ ~analyzeImageThrows(disk[f])
                /\ store' = AdoptFile(store, f, disk[f])
                /\ now' = now + 1
                /\ disk' = DiskAfterAdopt(disk, f)
                /\ addedFromDisk' = [addedFromDisk EXCEPT ![p] = @ + 1]
        /\ diskTodo' = [diskTodo EXCEPT ![p] = @ \ {f}]
        /\ pc' = [pc EXCEPT ![p] = Goto(diskTodo[p] \ {f}, rowsTodo[p])]
    /\ UNCHANGED <<dbRows, diskFiles, rowsTodo, markedMissing, healed,
                   response, before, streak, writes>>

\* One iteration of: for (const row of dbRows) { existsSync; two ifs }
SyncPresence(p) ==
    /\ pc[p] = "presence"
    /\ \E row \in rowsTodo[p] :
        LET existsOnDisk == existsSync(disk, row.storage_path)
            flag == NeedsFlag(existsOnDisk, row)
            heal == NeedsHeal(existsOnDisk, row)
            s1   == IF flag THEN FlagMissing(store, row) ELSE store
            s2   == IF heal THEN Heal(s1, row) ELSE s1
        IN  /\ store' = s2
            /\ markedMissing' =
                   [markedMissing EXCEPT ![p] = IF flag THEN @ + 1 ELSE @]
            /\ healed' = [healed EXCEPT ![p] = IF heal THEN @ + 1 ELSE @]
            /\ rowsTodo' = [rowsTodo EXCEPT ![p] = @ \ {row}]
            /\ pc' = [pc EXCEPT ![p] = Goto({}, rowsTodo[p] \ {row})]
    /\ UNCHANGED <<disk, now, dbRows, diskFiles, diskTodo, addedFromDisk,
                   before, response, streak, writes>>

\* res.json({ totalDbBefore, totalDisk, addedFromDisk, markedMissing, healed })
SyncRespond(p) ==
    /\ pc[p] = "respond"
    /\ response' = [response EXCEPT ![p] =
           [status |-> 200,
            body   |-> [totalDbBefore |-> Cardinality(dbRows[p]),
                        totalDisk     |-> Cardinality(diskFiles[p]),
                        addedFromDisk |-> addedFromDisk[p],
                        markedMissing |-> markedMissing[p],
                        healed        |-> healed[p]]]]
    /\ pc' = [pc EXCEPT ![p] = "done"]
    /\ streak' = IF streak < MaxStreak THEN streak + 1 ELSE streak
    /\ Return(p)
    /\ UNCHANGED <<disk, store, now, before, writes>>

\* A catch block that reports how far the run got.
FailureBody_partial(p) ==
    [error         |-> "Sync failed",
     addedFromDisk |-> addedFromDisk[p],
     markedMissing |-> markedMissing[p],
     healed        |-> healed[p]]

\* The body of res.status(500).json({ error: "Sync failed" })
FailureBody(p) == [error |-> "Sync failed"]

\* catch (err) { res.status(500).json({ error: "Sync failed" }) }
\* What can throw: the SELECT, readdirSync, and for an orphan statSync or the
\* INSERT, and for a row to flip the UPDATE. The statement that threw has
\* changed nothing.
SyncFail(p) ==
    /\ \/ pc[p] = "query"
       \/ pc[p] = "list"
       \/ /\ pc[p] = "adopt"
          /\ \E f \in diskTodo[p] : ~existsInDb(dbRows[p], f)
       \/ /\ pc[p] = "presence"
          /\ \E row \in rowsTodo[p] :
                \/ NeedsFlag(existsSync(disk, row.storage_path), row)
                \/ NeedsHeal(existsSync(disk, row.storage_path), row)
    /\ pc' = [pc EXCEPT ![p] = "failed"]
    /\ response' = [response EXCEPT ![p] =
           [status |-> 500, body |-> FailureBody(p)]]
    /\ streak' = 0
    /\ Return(p)
    /\ UNCHANGED <<disk, store, now, before, writes>>

-----------------------------------------------------------------------------
(* The world outside the handler: files come and go in the storage root *)

\* The names on disk or referred to by a row.
InPlay ==
    readdirSync(disk) \cup
        {n \in Names : \E r \in store : r.storage_path = fullPath(n)}

\* No request is being served.
Quiescent == \A p \in Procs : pc[p] \in {"idle", "done", "failed"}

\* The client has read the last response; what is kept about it is dropped.
Forget ==
    /\ pc' = [p \in Procs |-> "idle"]
    /\ dbRows' = [p \in Procs |-> {}]
    /\ diskFiles' = [p \in Procs |-> {}]
    /\ diskTodo' = [p \in Procs |-> {}]
    /\ rowsTodo' = [p \in Procs |-> {}]
    /\ addedFromDisk' = [p \in Procs |-> 0]
    /\ markedMissing' = [p \in Procs |-> 0]
    /\ healed' = [p \in Procs |-> 0]
    /\ response' = [p \in Procs |-> NoResponse]
    /\ before' = [p \in Procs |-> NoHistory]
    /\ streak' = 0

\* Somebody puts a file into the storage root.
FsAdd(n, c) ==
    /\ disk[n] = "none"
    /\ n \in InPlay \/ Cardinality(InPlay) < MaxPaths
    /\ disk' = [disk EXCEPT ![n] = c]
    /\ UNCHANGED <<store, now, writes>>

\* Somebody removes a file from the storage root.
FsRemove(n) ==
    /\ disk[n] # "none"
    /\ disk' = [disk EXCEPT ![n] = "none"]
    /\ UNCHANGED <<store, now, writes>>

\* Between two runs of the sequential system.
AddBetweenRuns == \E n \in Names, c \in Contents : Quiescent /\ FsAdd(n, c) /\ Forget
RemoveBetweenRuns == \E n \in Names : Quiescent /\ FsRemove(n) /\ Forget

-----------------------------------------------------------------------------
(* One sync request at a time, files changing between the runs *)

Next ==
    \/ AddBetweenRuns
    \/ RemoveBetweenRuns
    \/ SyncStart(1)
    \/ SyncQuery(1)
    \/ SyncList(1)
    \/ SyncAdopt(1)
    \/ SyncPresence(1)
    \/ SyncRespond(1)
    \/ SyncFail(1)

Spec == Init /\ [][Next]_vars

-----------------------------------------------------------------------------
(* The scenario of the testable properties: rows for /s/a.png (not flagged)  *)
(* and /s/b.jpg (flagged), files a.png and c.tif in the storage root.        *)

ScenarioInit ==
    /\ \E ca \in Contents, cb \in Contents, da \in Contents, dc \in Contents :
        /\ store =
              {Row(1, A_PNG, "image/png", statSize(ca), analyzeImage(ca).width,
                   analyzeImage(ca).height, fullPath(A_PNG), FALSE, 1),
               Row(2, B_JPG, "image/jpeg", statSize(cb), analyzeImage(cb).width,
                   analyzeImage(cb).height, fullPath(B_JPG), TRUE, 2)}
        /\ disk = [NoFiles EXCEPT ![A_PNG] = da, ![C_TIF] = dc]
    /\ now = 3
    /\ pc = [p \in Procs |-> "idle"]
    /\ dbRows = [p \in Procs |-> {}]
    /\ diskFiles = [p \in Procs |-> {}]
    /\ diskTodo = [p \in Procs |-> {}]
    /\ rowsTodo = [p \in Procs |-> {}]
    /\ addedFromDisk = [p \in Procs |-> 0]
    /\ markedMissing = [p \in Procs |-> 0]
    /\ healed = [p \in Procs |-> 0]
    /\ response = [p \in Procs |-> NoResponse]
    /\ before = [p \in Procs |-> NoHistory]
    /\ streak = 0
    /\ writes = {}

SpecScenario == ScenarioInit /\ [][Next]_vars

-----------------------------------------------------------------------------
(* Runs that are tried again after a failure *)

\* The client posts /sync again after a 500, nothing having changed in the
\* storage root since. The handler starts as in SyncStart; before[p] keeps the
\* table and directory from which the failed attempt started.
SyncRetry(p) ==
    /\ pc[p] = "failed"
    /\ pc' = [pc EXCEPT ![p] = "query"]
    /\ dbRows' = [dbRows EXCEPT ![p] = {}]
    /\ diskFiles' = [diskFiles EXCEPT ![p] = {}]
    /\ diskTodo' = [diskTodo EXCEPT ![p] = {}]
    /\ rowsTodo' = [rowsTodo EXCEPT ![p] = {}]
    /\ addedFromDisk' = [addedFromDisk EXCEPT ![p] = 0]
    /\ markedMissing' = [markedMissing EXCEPT ![p] = 0]
    /\ healed' = [healed EXCEPT ![p] = 0]
    /\ response' = [response EXCEPT ![p] = NoResponse]
    /\ UNCHANGED <<disk, store, now, before, streak, writes>>

\* A first attempt starts when no attempt has just failed.
SyncFirst(p) == pc[p] # "failed" /\ SyncStart(p)

NextRetry ==
    \/ AddBetweenRuns
    \/ RemoveBetweenRuns
    \/ SyncFirst(1)
    \/ SyncRetry(1)
    \/ SyncQuery(1)
    \/ SyncList(1)
    \/ SyncAdopt(1)
    \/ SyncPresence(1)
    \/ SyncRespond(1)
    \/ SyncFail(1)

SpecRetry == Init /\ [][NextRetry]_vars

-----------------------------------------------------------------------------
(* Two /sync requests served at once *)

\* The server is single-threaded but every await (pool.query) yields, so the
\* statements of two handlers interleave at the granularity of the actions
\* above. Nothing in the handler takes a lock or opens a transaction.
\* The storage root holds a.png, decodable or not; the table is empty.
ConcInit ==
    /\ \E c \in Contents :
          disk = [n \in Names |-> IF n = A_PNG THEN c ELSE "none"]
    /\ store = {}
    /\ now = 1
    /\ pc = [p \in Procs |-> "idle"]
    /\ dbRows = [p \in Procs |-> {}]
    /\ diskFiles = [p \in Procs |-> {}]
    /\ diskTodo = [p \in Procs |-> {}]
    /\ rowsTodo = [p \in Procs |-> {}]
    /\ addedFromDisk = [p \in Procs |-> 0]
    /\ markedMissing = [p \in Procs |-> 0]
    /\ healed = [p \in Procs |-> 0]
    /\ response = [p \in Procs |-> NoResponse]
    /\ before = [p \in Procs |-> NoHistory]
    /\ streak = 0
    /\ writes = {}

NextConc ==
    \/ \E p \in Procs : SyncStart(p)
    \/ \E p \in Procs : SyncQuery(p)
    \/ \E p \in Procs : SyncList(p)
    \/ \E p \in Procs : SyncAdopt(p)
    \/ \E p \in Procs : SyncPresence(p)
    \/ \E p \in Procs : SyncRespond(p)
    \/ \E p \in Procs : SyncFail(p)

SpecConc == ConcInit /\ [][NextConc]_vars

-----------------------------------------------------------------------------
(* The handlers that write files: POST /upload, /upload/batch, /images/:id/crop *)

\* Date.now() as string concatenation renders it (one digit in the model).
StampChars == <<"1", "2", "3", "4", "5", "6", "7", "8", "9">>
Stamp(t) == <<StampChars[t]>>

\* file.originalname values the client sends.
Originals == {A_PNG, NOTES_TXT}

\* file.mimetype: what the client declares for a file, here by its name as a
\* browser does.
ClientMime(orig) == IF orig = NOTES_TXT THEN "text/plain" ELSE "image/png"

\* multer's filename(req, file, cb): Date.now() + "_" + file.originalname
UploadFilename(t, orig) == Stamp(t) \o <<"_">> \o orig

\* The index of the last "/" of name, 0 if it has none.
LastSlash(name) ==
    LET S == {i \in 1..Len(name) : name[i] = "/"}
    IN  IF S = {} THEN 0 ELSE MaxOf(S)

\* path.basename(name)
basename(name) == SubSeq(name, LastSlash(name) + 1, Len(name))

\* const newFilename = `crop_${Date.now()}_${baseName}`
CropFilename(t, filename) ==
    <<"c", "r", "o", "p", "_">> \o Stamp(t) \o <<"_">> \o basename(filename)

\* The names the writing handlers can give a file within the bounds.
WriterNames ==
    {UploadFilename(t, o) : t \in 1..MaxClock, o \in Originals}
        \cup {CropFilename(t, o) : t \in 1..MaxClock, o \in Originals}

\* A multer that reports the file name without its directory.
FilePath_bare(name) == name

\* file.path as multer's disk storage sets it: path.join(destination, filename)
FilePath(name) == fullPath(name)

\* const newPath = path.join(storageRoot, newFilename)
CropPath(name) == fullPath(name)

\* The name of the file at path p, for a path inside the storage root.
NameAt(d, p) == CHOOSE n \in DOMAIN d : fullPath(n) = p

\* No upload or crop request stands between its file write and its INSERT.
WritersIdle == \A w \in writes : w.state # "written"

\* What a writing handler remembers of a file it has written.
Written(name, req, orig, mime, size) ==
    [name |-> name, req |-> req, originalname |-> orig, mimetype |-> mime,
     size |-> size, state |-> "written", id |-> Null]

\* What belongs to the /sync handlers.
syncLocals == <<pc, dbRows, diskFiles, diskTodo, rowsTodo, addedFromDisk,
                markedMissing, healed, response, before, streak>>

\* upload.single("file"): multer stores the file before the handler runs.
UploadReceive(orig, c) ==
    /\ Quiescent
    /\ WritersIdle
    /\ now <= MaxClock
    /\ LET name == UploadFilename(now, orig)
       IN  /\ disk' = [disk EXCEPT ![name] = c]
           /\ writes' = writes \cup
                  {Written(name, "upload", orig, ClientMime(orig),
                           statSize(c))}
    /\ Forget
    /\ UNCHANGED <<store, now>>

\* multiUpload.array("files", 50): multer stores every file of the request,
\* here one for each original name, before the handler runs.
BatchReceive(cs) ==
    /\ Quiescent
    /\ WritersIdle
    /\ now <= MaxClock
    /\ disk' = [n \in DOMAIN disk |->
                   IF \E o \in Originals : n = UploadFilename(now, o)
                   THEN cs[CHOOSE o \in Originals : n = UploadFilename(now, o)]
                   ELSE disk[n]]
    /\ writes' = writes \cup
           {Written(UploadFilename(now, o), "batch", o, ClientMime(o),
                    statSize(cs[o])) : o \in Originals}
    /\ Forget
    /\ UNCHANGED <<store, now>>

\* const analysis = await analyzeImage(file.path); INSERT ... VALUES
\* (file.originalname, file.mimetype, file.size, analysis.width,
\*  analysis.height, file.path, analysis.isCorrupted)
InsertUploaded(w) ==
    LET analysis == analyzeImage(disk[w.name])
    IN  /\ store' = InsertRow(store, w.originalname, w.mimetype, w.size,
                              analysis.width, analysis.height,
                              FilePath(w.name), analysis.isCorrupted)
        /\ now' = now + 1
        /\ writes' = (writes \ {w}) \cup
               {[w EXCEPT !.state = "inserted", !.id = FreshId(store)]}
        /\ UNCHANGED <<disk, syncLocals>>

\* The body of POST /upload.
UploadInsert ==
    \E w \in writes :
        w.req = "upload" /\ w.state = "written" /\ InsertUploaded(w)

\* One iteration of the loop of POST /upload/batch.
BatchInsert ==
    \E w \in writes :
        w.req = "batch" /\ w.state = "written" /\ InsertUploaded(w)

\* catch (err) { res.status(500).json(...) } of the three handlers: the
\* INSERT threw; the files the request wrote stay, its remaining files get
\* no row, and the request is over.
WriterFail(req) ==
    /\ \E w \in writes : w.req = req /\ w.state = "written"
    /\ writes' = {w \in writes : ~(w.req = req /\ w.state = "written")}
    /\ now' = now + 1
    /\ UNCHANGED <<disk, store, syncLocals>>

UploadFail == WriterFail("upload")
BatchFail == WriterFail("batch")
CropFail == WriterFail("crop")

\* POST /images/:id/crop up to fs.statSync(newPath): the row is found, its
\* file exists and sharp decodes it, and the extracted region, encoded by
\* sharp, is written under the new name. (Every other outcome, 400, 404 or
\* 500, is sent before anything is written.) Only originals are cropped, so
\* that the new name is one of WriterNames.
CropWrite(row) ==
    /\ Quiescent
    /\ WritersIdle
    /\ now <= MaxClock
    /\ existsSync(disk, row.storage_path)
    /\ disk[NameAt(disk, row.storage_path)] = "ok"
    /\ CropFilename(now, row.filename) \in DOMAIN disk
    /\ LET name == CropFilename(now, row.filename)
       IN  /\ disk' = [disk EXCEPT ![name] = "ok"]
           /\ writes' = writes \cup
                  {Written(name, "crop", name, row.mime_type, statSize("ok"))}
    /\ Forget
    /\ UNCHANGED <<store, now>>

\* INSERT ... VALUES (newFilename, row.mime_type, stats.size, newPath, false)
CropInsert ==
    \E w \in writes :
        /\ w.req = "crop" /\ w.state = "written"
        /\ store' = InsertRow(store, w.name, w.mimetype, w.size, Null, Null,
                              CropPath(w.name), FALSE)
        /\ now' = now + 1
        /\ writes' = (writes \ {w}) \cup
               {[w EXCEPT !.state = "inserted", !.id = FreshId(store)]}
        /\ UNCHANGED <<disk, syncLocals>>

\* A /sync request that arrives when no writing request is in flight. (A
\* writing request, in turn, is accepted when no /sync request is in flight,
\* and what the last /sync answered is then forgotten.)
SyncAfterWrites(p) == WritersIdle /\ SyncStart(p)

\* The storage root and the table are empty; every file comes from a writing
\* handler.
WritersInit ==
    /\ disk = [n \in WriterNames |-> "none"]
    /\ store = {}
    /\ now = 1
    /\ pc = [p \in Procs |-> "idle"]
    /\ dbRows = [p \in Procs |-> {}]
    /\ diskFiles = [p \in Procs |-> {}]
    /\ diskTodo = [p \in Procs |-> {}]
    /\ rowsTodo = [p \in Procs |-> {}]
    /\ addedFromDisk = [p \in Procs |-> 0]
    /\ markedMissing = [p \in Procs |-> 0]
    /\ healed = [p \in Procs |-> 0]
    /\ response = [p \in Procs |-> NoResponse]
    /\ before = [p \in Procs |-> NoHistory]
    /\ streak = 0
    /\ writes = {}

NextWriters ==
    \/ \E o \in Originals, c \in Contents : UploadReceive(o, c)
    \/ UploadInsert
    \/ UploadFail
    \/ \E cs \in [Originals -> Contents] : BatchReceive(cs)
    \/ BatchInsert
    \/ BatchFail
    \/ \E row \in store : CropWrite(row)
    \/ CropInsert
    \/ CropFail
    \/ SyncAfterWrites(1)
    \/ SyncQuery(1)
    \/ SyncList(1)
    \/ SyncAdopt(1)
    \/ SyncPresence(1)
    \/ SyncRespond(1)
    \/ SyncFail(1)

SpecWriters == WritersInit /\ [][NextWriters]_vars

-----------------------------------------------------------------------------
(* One tracked image whose file is taken away and put back *)

\* The row of the image called n as the adoption of a sound file left it.
TrackedRow(n) ==
    Row(1, n, InferMime(n), statSize("ok"), analyzeImage("ok").width,
        analyzeImage("ok").height, fullPath(n), FALSE, 1)

\* The table holds one row, not flagged, and its file is in the storage root.
TrackedInit ==
    /\ \E n \in ListDiskFiles([m \in Names |-> "ok"]) :
          /\ disk = [m \in Names |-> IF m = n THEN "ok" ELSE "none"]
          /\ store = {TrackedRow(n)}
    /\ now = 2
    /\ pc = [p \in Procs |-> "idle"]
    /\ dbRows = [p \in Procs |-> {}]
    /\ diskFiles = [p \in Procs |-> {}]
    /\ diskTodo = [p \in Procs |-> {}]
    /\ rowsTodo = [p \in Procs |-> {}]
    /\ addedFromDisk = [p \in Procs |-> 0]
    /\ markedMissing = [p \in Procs |-> 0]
    /\ healed = [p \in Procs |-> 0]
    /\ response = [p \in Procs |-> NoResponse]
    /\ before = [p \in Procs |-> NoHistory]
    /\ streak = 0
    /\ writes = {}

\* Between two runs the file of the tracked image is removed.
RemoveTracked ==
    \E r \in store :
        Quiescent /\ FsRemove(NameAt(disk, r.storage_path)) /\ Forget

\* Between two runs a file, with whatever bytes, is put at the tracked path.
RestoreTracked ==
    \E r \in store : \E c \in Contents :
        Quiescent /\ FsAdd(NameAt(disk, r.storage_path), c) /\ Forget

NextRoundTrip ==
    \/ RemoveTracked
    \/ RestoreTracked
    \/ SyncStart(1)
    \/ SyncQuery(1)
    \/ SyncList(1)
    \/ SyncAdopt(1)
    \/ SyncPresence(1)
    \/ SyncRespond(1)
    \/ SyncFail(1)

SpecRoundTrip == TrackedInit /\ [][NextRoundTrip]_vars

-----------------------------------------------------------------------------
(* Adoption of files whose names differ in extension and letter case *)

F_PNG_UP  == <<"F", ".", "P", "N", "G">>
X_TIFF_UP == <<"X", ".", "T", "I", "F", "F">>
M_TIF_MIX == <<"m", ".", "T", "i", "f">>
J_JPEG    == <<"j", ".", "j", "p", "e", "g">>
K_JPG_UP  == <<"k", ".", "J", "P", "G">>

\* The names the storage root draws from here.
MimeNames ==
    {A_PNG, B_JPG, C_TIF, DOT_PNG, NOTES_TXT,
     F_PNG_UP, X_TIFF_UP, M_TIF_MIX, J_JPEG, K_JPG_UP}

\* The table is empty and the storage root holds one or two files.
MimeInit ==
    /\ \E n1 \in MimeNames, n2 \in MimeNames, c \in Contents :
          disk = [m \in MimeNames |-> IF m \in {n1, n2} THEN c ELSE "none"]
    /\ store = {}
    /\ now = 1
    /\ pc = [p \in Procs |-> "idle"]
    /\ dbRows = [p \in Procs |-> {}]
    /\ diskFiles = [p \in Procs |-> {}]
    /\ diskTodo = [p \in Procs |-> {}]
    /\ rowsTodo = [p \in Procs |-> {}]
    /\ addedFromDisk = [p \in Procs |-> 0]
    /\ markedMissing = [p \in Procs |-> 0]
    /\ healed = [p \in Procs |-> 0]
    /\ response = [p \in Procs |-> NoResponse]
    /\ before = [p \in Procs |-> NoHistory]
    /\ streak = 0
    /\ writes = {}

NextMime ==
    \/ SyncStart(1)
    \/ SyncQuery(1)
    \/ SyncList(1)
    \/ SyncAdopt(1)
    \/ SyncPresence(1)
    \/ SyncRespond(1)
    \/ SyncFail(1)

SpecMime == MimeInit /\ [][NextMime]_vars

-----------------------------------------------------------------------------
(* The storage root changing while a /sync request is being served *)

\* The table is empty or holds a row for a.png, flagged or not; any of a.png,
\* b.jpg and c.tif is in the storage root.
MidRunInit ==
    /\ \E S \in SUBSET {A_PNG, B_JPG, C_TIF} :
          disk = [n \in Names |-> IF n \in S THEN "ok" ELSE "none"]
    /\ \E flagged \in BOOLEAN :
          store \in {{}, {[TrackedRow(A_PNG) EXCEPT !.is_corrupted = flagged]}}
    /\ now = 2
    /\ pc = [p \in Procs |-> "idle"]
    /\ dbRows = [p \in Procs |-> {}]
    /\ diskFiles = [p \in Procs |-> {}]
    /\ diskTodo = [p \in Procs |-> {}]
    /\ rowsTodo = [p \in Procs |-> {}]
    /\ addedFromDisk = [p \in Procs |-> 0]
    /\ markedMissing = [p \in Procs |-> 0]
    /\ healed = [p \in Procs |-> 0]
    /\ response = [p \in Procs |-> NoResponse]
    /\ before = [p \in Procs |-> NoHistory]
    /\ streak = 0
    /\ writes = {}

\* The handler of request 1 has listed the directory and is in its loops.
AfterListing == pc[1] \in {"adopt", "presence"}

\* Somebody removes a file after the listing and before the response.
RemoveMidRun ==
    \E n \in Names :
        /\ AfterListing
        /\ FsRemove(n)
        /\ UNCHANGED syncLocals

\* Somebody adds a file after the listing and before the response.
AddMidRun ==
    \E n \in Names, c \in Contents :
        /\ AfterListing
        /\ FsAdd(n, c)
        /\ UNCHANGED syncLocals

\* The one request this specification follows arrives.
SyncOnce(p) == pc[p] = "idle" /\ SyncStart(p)

NextMidRun ==
    \/ RemoveMidRun
    \/ AddMidRun
    \/ SyncOnce(1)
    \/ SyncQuery(1)
    \/ SyncList(1)
    \/ SyncAdopt(1)
    \/ SyncPresence(1)
    \/ SyncRespond(1)
    \/ SyncFail(1)

SpecMidRun == MidRunInit /\ [][NextMidRun]_vars

-----------------------------------------------------------------------------
(* A writing request that overlaps a /sync request *)

\* upload.single("file") while a /sync request may be in flight: multer
\* stores the file, and the handler has not yet inserted its row.
UploadDuringSync(orig, c) ==
    /\ WritersIdle
    /\ now <= MaxClock
    /\ LET name == UploadFilename(now, orig)
       IN  /\ disk' = [disk EXCEPT ![name] = c]
           /\ writes' = writes \cup
                  {Written(name, "upload", orig, ClientMime(orig),
                           statSize(c))}
    /\ UNCHANGED <<store, now, syncLocals>>

\* POST /images/:id/crop up to fs.statSync(newPath) while a /sync request may
\* be in flight: the cropped file is written, its row is not yet inserted.
CropDuringSync(row) ==
    /\ WritersIdle
    /\ now <= MaxClock
    /\ existsSync(disk, row.storage_path)
    /\ disk[NameAt(disk, row.storage_path)] = "ok"
    /\ CropFilename(now, row.filename) \in DOMAIN disk
    /\ LET name == CropFilename(now, row.filename)
       IN  /\ disk' = [disk EXCEPT ![name] = "ok"]
           /\ writes' = writes \cup
                  {Written(name, "crop", name, row.mime_type, statSize("ok"))}
    /\ UNCHANGED <<store, now, syncLocals>>

\* The table holds one row, for a.png, whose file is in the storage root; the
\* other files come from the writing handlers.
OverlapInit ==
    /\ disk = [n \in WriterNames \cup {A_PNG} |->
                  IF n = A_PNG THEN "ok" ELSE "none"]
    /\ store = {TrackedRow(A_PNG)}
    /\ now = 2
    /\ pc = [p \in Procs |-> "idle"]
    /\ dbRows = [p \in Procs |-> {}]
    /\ diskFiles = [p \in Procs |-> {}]
    /\ diskTodo = [p \in Procs |-> {}]
    /\ rowsTodo = [p \in Procs |-> {}]
    /\ addedFromDisk = [p \in Procs |-> 0]
    /\ markedMissing = [p \in Procs |-> 0]
    /\ healed = [p \in Procs |-> 0]
    /\ response = [p \in Procs |-> NoResponse]
    /\ before = [p \in Procs |-> NoHistory]
    /\ streak = 0
    /\ writes = {}

NextOverlap ==
    \/ \E o \in Originals, c \in Contents : UploadDuringSync(o, c)
    \/ UploadInsert
    \/ UploadFail
    \/ \E row \in store : CropDuringSync(row)
    \/ CropInsert
    \/ CropFail
    \/ SyncStart(1)
    \/ SyncQuery(1)
    \/ SyncList(1)
    \/ SyncAdopt(1)
    \/ SyncPresence(1)
    \/ SyncRespond(1)
    \/ SyncFail(1)

SpecOverlap == OverlapInit /\ [][NextOverlap]_vars

-----------------------------------------------------------------------------
(* What the claims speak of *)

\* The run of request 1 has ended with the summary.
Completed == pc[1] = "done" /\ response[1].status = 200

Summary == response[1].body

\* name ends in ext, letter case aside.
EndsWithCI(name, ext) ==
    /\ Len(name) >= Len(ext)
    /\ toLowerCase(SubSeq(name, Len(name) - Len(ext) + 1, Len(name))) = ext

\* The allow-list as the specification writes it.
AllowList ==
    {<<".", "p", "n", "g">>, <<".", "j", "p", "g">>, <<".", "j", "p", "e", "g">>,
     <<".", "t", "i", "f">>, <<".", "t", "i", "f", "f">>}

HasImageExtension(name) == \E e \in AllowList : EndsWithCI(name, e)

\* The names of the model that end in an allow-listed extension.
ImageNames == {n \in Names : HasImageExtension(n)}

\* The mime type the specification gives an allow-listed name.
MimeOfExtension(name) ==
    IF EndsWithCI(name, <<".", "p", "n", "g">>) THEN "image/png"
    ELSE IF \/ EndsWithCI(name, <<".", "t", "i", "f">>)
            \/ EndsWithCI(name, <<".", "t", "i", "f", "f">>)
         THEN "image/tiff"
         ELSE "image/jpeg"

\* The rows of table s that refer to the file called n.
RowsOf(s, n) == {r \in s : r.storage_path = fullPath(n)}

\* The files that were orphans when the run began.
OrphansBefore ==
    {n \in ImageNames : /\ before[1].disk[n] # "none"
                        /\ RowsOf(before[1].store, n) = {}}

\* The paths of table s, each with its flag.
EndState(s) == {<<r.storage_path, r.is_corrupted>> : r \in s}

\* The end state of one whole run that starts from table h.store and
\* directory h.disk: the adoption loop over the listed files, then the
\* presence loop over the rows of the snapshot.
UninterruptedEnd(h) ==
    LET adopted ==
            {<<fullPath(n), analyzeImage(h.disk[n]).isCorrupted>> :
                n \in {f \in ListDiskFiles(h.disk) : ~existsInDb(h.store, f)}}
        checked ==
            {<<r.storage_path,
               LET ex == existsSync(h.disk, r.storage_path)
               IN  IF NeedsFlag(ex, r) THEN TRUE
                   ELSE IF NeedsHeal(ex, r) THEN FALSE
                   ELSE r.is_corrupted>> : r \in h.store}
    IN  adopted \cup checked

-----------------------------------------------------------------------------
\* C1: when sync is run twice in a row with nothing changed from outside
\* between the two runs, the second run's summary has addedFromDisk = 0,
\* markedMissing = 0 and healed = 0.
C1_Idempotence ==
    (Completed /\ streak >= 2) =>
        /\ Summary.addedFromDisk = 0
        /\ Summary.markedMissing = 0
        /\ Summary.healed = 0

\* C2: starting from a table in which no two rows share a storage_path, after
\* any number of sequential sync runs with files added and removed between
\* them, no two rows share a storage_path.
C2_NoDuplication ==
    \A r1 \in store : \A r2 \in store :
        r1.storage_path = r2.storage_path => r1 = r2

\* A run has ended that healed a row (its file had gone and come back between
\* runs) with two rows in the table.
C2_Witness ==
    /\ Completed
    /\ Cardinality(store) >= 2
    /\ Summary.healed >= 1
    /\ streak >= 1

\* C3: every allow-listed file that no row refers to when a run starts has,
\* once the run has completed, exactly one row, a new one, with the mime type
\* of its extension and the inspector's verdict, and addedFromDisk counts it
\* once.
C3_OrphanAdoption ==
    Completed =>
        /\ \A n \in OrphansBefore :
              /\ Cardinality(RowsOf(store, n)) = 1
              /\ \A r \in RowsOf(store, n) :
                    /\ r \notin before[1].store
                    /\ r.mime_type = MimeOfExtension(n)
                    /\ r.is_corrupted =
                           analyzeImage(before[1].disk[n]).isCorrupted
        /\ Summary.addedFromDisk = Cardinality(OrphansBefore)

\* C4: every row that is not flagged when a run starts and whose file is not
\* on disk is flagged once the run has completed, and markedMissing >= 1.
C4_MissingFlagged ==
    Completed =>
        \A r \in before[1].store :
            (~r.is_corrupted /\ ~existsSync(before[1].disk, r.storage_path)) =>
                /\ \E r2 \in store : r2.id = r.id /\ r2.is_corrupted
                /\ Summary.markedMissing >= 1

\* A completed run that began with an unflagged row whose file was gone.
C4_Witness ==
    /\ Completed
    /\ \E r \in before[1].store :
          ~r.is_corrupted /\ ~existsSync(before[1].disk, r.storage_path)

\* C5: every row that is flagged when a run starts and whose file is on disk
\* is not flagged once the run has completed, healed >= 1, and its width and
\* height are what they were (the inspector is not run again).
C5_Healing ==
    Completed =>
        \A r \in before[1].store :
            (r.is_corrupted /\ existsSync(before[1].disk, r.storage_path)) =>
                /\ \E r2 \in store :
                      /\ r2.id = r.id
                      /\ ~r2.is_corrupted
                      /\ r2.width = r.width
                      /\ r2.height = r.height
                /\ Summary.healed >= 1

\* A completed run that began with a flagged row whose file was on disk, the
\* file holding something the inspector would measure differently.
C5_Witness ==
    /\ Completed
    /\ \E r \in before[1].store : \E n \in Names :
          /\ r.is_corrupted
          /\ r.storage_path = fullPath(n)
          /\ before[1].disk[n] # "none"
          /\ analyzeImage(before[1].disk[n]).width # r.width

\* C6: a file whose name does not end in .png, .jpg, .jpeg, .tif or .tiff is
\* never adopted by a sync run and is not counted in totalDisk.
C6_ExtensionFiltering ==
    /\ \A n \in Names \ ImageNames : RowsOf(store, n) = {}
    /\ Completed =>
          Summary.totalDisk =
              Cardinality({n \in ImageNames : before[1].disk[n] # "none"})

\* A completed run over a directory that held notes.txt beside an image.
C6_Witness ==
    /\ Completed
    /\ before[1].disk[NOTES_TXT] # "none"
    /\ Summary.totalDisk >= 1
    /\ Summary.addedFromDisk >= 1

\* The state the scenario starts from.
IsScenario(h) ==
    /\ Cardinality(h.store) = 2
    /\ \E ra \in h.store : \E rb \in h.store :
          /\ ra.storage_path = <<"/", "s", "/", "a", ".", "p", "n", "g">>
          /\ ~ra.is_corrupted
          /\ rb.storage_path = <<"/", "s", "/", "b", ".", "j", "p", "g">>
          /\ rb.is_corrupted
    /\ readdirSync(h.disk) = {A_PNG, C_TIF}

\* C7: with rows {/s/a.png not flagged, /s/b.jpg flagged} and files {/s/a.png,
\* /s/c.tif}, one run returns addedFromDisk = 1, markedMissing = 0, healed = 0
\* and leaves 3 rows: a.png not flagged, b.jpg flagged, and a new row for
\* c.tif with mime type image/tiff.
C7_Scenario ==
    (Completed /\ IsScenario(before[1])) =>
        /\ Summary.addedFromDisk = 1
        /\ Summary.markedMissing = 0
        /\ Summary.healed = 0
        /\ Cardinality(store) = 3
        /\ \E ra \in store : \E rb \in store : \E rc \in store :
              /\ ra.storage_path = <<"/", "s", "/", "a", ".", "p", "n", "g">>
              /\ ~ra.is_corrupted
              /\ rb.storage_path = <<"/", "s", "/", "b", ".", "j", "p", "g">>
              /\ rb.is_corrupted
              /\ rc.storage_path = <<"/", "s", "/", "c", ".", "t", "i", "f">>
              /\ rc.mime_type = "image/tiff"
              /\ rc \notin before[1].store

\* A run from the scenario's state has completed.
C7_Witness == Completed /\ IsScenario(before[1])

\* C8: sync never removes a row: every id in the table before a step is in
\* it after the step, whether the run goes on, completes or aborts; when a run
\* completes, a row whose file had disappeared is in the table, flagged.
C8_NeverRemoves ==
    [][/\ \A r \in store : \E r2 \in store' : r2.id = r.id
       /\ (pc'[1] = "done") =>
              \A r \in before[1].store :
                  ~existsSync(before[1].disk, r.storage_path) =>
                      \E r2 \in store' : r2.id = r.id /\ r2.is_corrupted]_vars

\* A run has ended, completed or aborted, after it flagged a row whose file
\* had disappeared.
C8_Witness ==
    /\ pc[1] \in {"done", "failed"}
    /\ \E r \in before[1].store :
          /\ ~r.is_corrupted
          /\ ~existsSync(before[1].disk, r.storage_path)
          /\ \E r2 \in store : r2.id = r.id /\ r2.is_corrupted

\* C9: on a row that exists when a run starts, the run changes no column
\* other than is_corrupted.
C9_OnlyFlagChanges ==
    \A r \in before[1].store :
        \E r2 \in store :
            /\ r2.id = r.id
            /\ r2.filename = r.filename
            /\ r2.mime_type = r.mime_type
            /\ r2.size_bytes = r.size_bytes
            /\ r2.width = r.width
            /\ r2.height = r.height
            /\ r2.storage_path = r.storage_path
            /\ r2.created_at = r.created_at

\* A completed run that flagged one row, which had dimensions, and healed
\* another.
C9_Witness ==
    /\ Completed
    /\ Summary.healed >= 1
    /\ \E r \in before[1].store : \E r2 \in store :
          /\ r2.id = r.id
          /\ ~r.is_corrupted
          /\ r2.is_corrupted
          /\ r.width # Null

\* C10: a sync run leaves the storage root as it found it: the same files
\* with the same contents, at every point of the run and after it.
C10_DiskUntouched ==
    pc[1] # "idle" => disk = before[1].disk

\* A completed run that adopted a file the inspector could not decode and
\* flagged or healed a row.
C10_Witness ==
    /\ Completed
    /\ \E r \in store \ before[1].store : r.is_corrupted
    /\ Summary.markedMissing + Summary.healed >= 1


\* The rows the run inserted: those whose id no row had when it began.
InsertedRows == {r \in store : \A r0 \in before[1].store : r0.id # r.id}

\* The rows of the beginning whose flag now differs and had the value was.
Flipped(was) ==
    {r \in before[1].store :
        /\ r.is_corrupted = was
        /\ \E r2 \in store : r2.id = r.id /\ r2.is_corrupted # was}

\* C11: the summary of a completed run reports the number of rows at the
\* snapshot as totalDbBefore, the number of allow-listed directory entries as
\* totalDisk, the number of rows the run inserted as addedFromDisk, the number
\* of rows it turned from not flagged to flagged as markedMissing and the
\* number it turned from flagged to not flagged as healed.
C11_SummaryCounts ==
    Completed =>
        /\ Summary.totalDbBefore = Cardinality(before[1].store)
        /\ Summary.totalDisk =
               Cardinality({n \in ImageNames : before[1].disk[n] # "none"})
        /\ Summary.addedFromDisk = Cardinality(InsertedRows)
        /\ Summary.markedMissing = Cardinality(Flipped(FALSE))
        /\ Summary.healed = Cardinality(Flipped(TRUE))

\* A completed run that found one row and one file, adopted the file,
\* flagged the row and healed none.
C11_Witness ==
    /\ Completed
    /\ Summary.totalDbBefore = 1
    /\ Summary.totalDisk = 1
    /\ Summary.addedFromDisk = 1
    /\ Summary.markedMissing = 1
    /\ Summary.healed = 0


\* The run of process 1 has ended in the catch block.
Aborted == pc[1] = "failed"

\* Row r2 is row r as a whole run leaves it: flagged exactly if its file was
\* not on disk.
FullyUpdated(r, r2) ==
    r2 = [r EXCEPT !.is_corrupted =
                       ~existsSync(before[1].disk, r.storage_path)]

\* Row r is a whole adoption of the orphan called n.
FullyAdopted(r, n) ==
    /\ r.filename = n
    /\ r.storage_path = fullPath(n)
    /\ r.mime_type = InferMime(n)
    /\ r.size_bytes = statSize(before[1].disk[n])
    /\ r.width = analyzeImage(before[1].disk[n]).width
    /\ r.height = analyzeImage(before[1].disk[n]).height
    /\ r.is_corrupted = analyzeImage(before[1].disk[n]).isCorrupted

\* C12: a run that fails answers with status 500 and a body that holds only
\* an error message and no counts; the step that fails leaves the table as
\* the statements before it committed it (nothing is rolled back); and every
\* row is then either as it was before the run or as a whole run leaves it,
\* every inserted row being a whole adoption.
C12_FailureSemantics ==
    /\ [](Aborted =>
            /\ response[1].status = 500
            /\ DOMAIN response[1].body = {"error"}
            /\ \A r \in before[1].store :
                  \E r2 \in store :
                      r2.id = r.id /\ (r2 = r \/ FullyUpdated(r, r2))
            /\ \A r \in InsertedRows :
                  \E n \in OrphansBefore : FullyAdopted(r, n))
    /\ [][(pc[1] # "failed" /\ pc'[1] = "failed") => store' = store]_vars

\* A run failed after it had adopted one orphan and before it adopted
\* another, so the table holds part of the run's work.
C12_Witness ==
    /\ Aborted
    /\ InsertedRows # {}
    /\ \E n \in OrphansBefore : RowsOf(store, n) = {}


\* C13: when a run fails and sync is then run again, the directory being as
\* it was, until a run completes, the table ends with the same storage paths
\* and the same flag for each as one run without failure, started from the
\* state in which the first attempt started, leaves.
C13_RetryConvergence ==
    Completed => EndState(store) = UninterruptedEnd(before[1])


\* The orphans of the beginning that the inspector cannot decode.
UndecodableOrphans == {n \in OrphansBefore : before[1].disk[n] = "bad"}

\* C14: the inspector never throws to the adoption loop: whatever files the
\* loop has left, undecodable ones included, its next iteration can run; the
\* row of an undecodable orphan has no width, no height and is flagged; and a
\* run that completes has adopted every undecodable orphan.
C14_InspectorNeverThrows ==
    /\ pc[1] = "adopt" => ENABLED SyncAdopt(1)
    /\ \A n \in UndecodableOrphans :
          \A r \in RowsOf(store, n) :
              r.width = Null /\ r.height = Null /\ r.is_corrupted
    /\ Completed => \A n \in UndecodableOrphans : RowsOf(store, n) # {}

\* A run adopted an undecodable orphan first and a decodable one after it,
\* and completed.
C14_Witness ==
    /\ Completed
    /\ \E n \in UndecodableOrphans : \E m \in OrphansBefore :
          \E r \in RowsOf(store, n) : \E r2 \in RowsOf(store, m) :
              /\ before[1].disk[m] = "ok"
              /\ r.created_at < r2.created_at


\* C19: in every step, a row whose is_corrupted changes gets another
\* updated_at, and a row whose is_corrupted stays keeps its updated_at.
C19_UpdatedAtOnFlip ==
    [][\A r \in store : \A r2 \in store' :
          r2.id = r.id =>
              ((r2.is_corrupted # r.is_corrupted)
                   <=> (r2.updated_at # r.updated_at))]_vars

\* C20: the presence loop starts when the adoption loop has no file left and
\* runs over rows of the snapshot only, so a row the run inserted keeps the
\* flag it was inserted with, and no path is counted both as added and as
\* flagged or healed.
C20_AdoptionBeforePresence ==
    /\ pc[1] = "presence" => diskTodo[1] = {}
    /\ rowsTodo[1] \subseteq dbRows[1]
    /\ \A r \in dbRows[1] : \E r0 \in before[1].store : r0.id = r.id
    /\ pc[1] # "idle" =>
          \A r \in InsertedRows :
              /\ r.is_corrupted =
                     analyzeImage(before[1].disk[r.filename]).isCorrupted
              /\ \A r0 \in Flipped(TRUE) \cup Flipped(FALSE) :
                     r0.storage_path # r.storage_path

\* A completed run that adopted an undecodable file, whose row is still
\* flagged although its file is on disk, and healed a row of the snapshot.
C20_Witness ==
    /\ Completed
    /\ Summary.healed >= 1
    /\ \E r \in InsertedRows :
          r.is_corrupted /\ existsSync(disk, r.storage_path)


\* C16: a step that inserts a row never inserts one whose storage_path a row
\* of the table already has (such an insert is refused and changes nothing).
C16_UniqueInsertRejected ==
    [][\A r \in store' :
          (\A r0 \in store : r0.id # r.id) =>
              \A r0 \in store : r0.storage_path # r.storage_path]_vars

\* Both handlers are between their listing and their response, both took
\* their snapshot when no row referred to file f, and both have been through
\* f in their adoption loop.
OverlapOn(f) ==
    \A p \in Procs :
        /\ pc[p] \in {"adopt", "presence", "respond"}
        /\ f \in diskFiles[p] \ diskTodo[p]
        /\ \A r \in dbRows[p] : r.storage_path # fullPath(f)

\* C17: nothing keeps two sync runs apart: when both have taken their
\* snapshot before either inserted, both see the same file as an orphan and
\* both insert a row for it, so two rows share its storage_path.
C17_OverlapDuplicates ==
    \A f \in ImageNames :
        OverlapOn(f) => Cardinality(RowsOf(store, f)) >= 2

\* Two overlapping runs have both adopted a.png and both have completed: the
\* table holds two rows for it and each summary counts one added file.
C17_Witness ==
    /\ \A p \in Procs :
          /\ pc[p] = "done"
          /\ response[p].status = 200
          /\ response[p].body.addedFromDisk = 1
    /\ Cardinality(RowsOf(store, A_PNG)) = 2


\* The writes whose request has inserted its row.
InsertedWrites == {w \in writes : w.state = "inserted"}

C18_PathConvention ==
    Completed =>
        /\ \A w \in InsertedWrites :
              /\ \E r \in store :
                    r.id = w.id /\ r.storage_path = fullPath(w.name)
              /\ Cardinality(RowsOf(store, w.name)) = 1
              /\ \A r \in InsertedRows : r.storage_path # fullPath(w.name)
        /\ Summary.addedFromDisk =
               Cardinality({n \in ListDiskFiles(before[1].disk) :
                               /\ \A w \in InsertedWrites : w.name # n
                               /\ RowsOf(before[1].store, n) = {}})

\* A sync run has completed after an upload and a crop of the uploaded image:
\* it listed both files and added none.
C18_Witness ==
    /\ Completed
    /\ \E w \in InsertedWrites : w.req = "upload"
    /\ \E w \in InsertedWrites : w.req = "crop"
    /\ Summary.totalDisk = 2
    /\ Summary.totalDbBefore = 2
    /\ Summary.addedFromDisk = 0

\* The row a step of the presence loop of request 1 has examined.
Examined == rowsTodo[1] \ rowsTodo'[1]

\* C22: an iteration of the presence loop on a row whose file is present and
\* which is not flagged, or whose file is absent and which is flagged, changes
\* no row and no counter; and any iteration raises at most one of
\* markedMissing and healed, by one.
C22_PresenceNoOp ==
    [][(pc[1] = "presence" /\ pc'[1] \in {"presence", "respond"}) =>
          \A row \in Examined :
              LET ex == existsSync(disk, row.storage_path)
                  dm == markedMissing'[1] - markedMissing[1]
                  dh == healed'[1] - healed[1]
              IN  /\ (ex <=> ~row.is_corrupted) =>
                         store' = store /\ dm = 0 /\ dh = 0
                  /\ dm >= 0 /\ dh >= 0 /\ dm + dh <= 1]_vars

\* A run has completed that found a row not flagged with its file present and
\* a row flagged with its file absent: it changed neither and counted nothing.
C22_Witness ==
    /\ Completed
    /\ store = before[1].store
    /\ \E r \in store : ~r.is_corrupted /\ existsSync(disk, r.storage_path)
    /\ \E r \in store : r.is_corrupted /\ ~existsSync(disk, r.storage_path)
    /\ Summary.markedMissing = 0
    /\ Summary.healed = 0

\* C25: after a run that has completed with nothing else changing the table
\* or the directory, every row of the snapshot is flagged exactly if no file
\* is at its storage_path; so a row inserted flagged because its file could
\* not be decoded, and whose file is present, is no longer flagged.
C25_FlagMeansMissing ==
    Completed =>
        \A r \in before[1].store :
            \E r2 \in store :
                /\ r2.id = r.id
                /\ r2.is_corrupted <=> ~existsSync(disk, r2.storage_path)

\* A run has completed that found a row inserted flagged for an undecodable
\* file (it has no dimensions), the file still on disk and still undecodable:
\* the row is no longer flagged.
C25_Witness ==
    /\ Completed
    /\ \E r \in before[1].store : \E r2 \in store :
          /\ r2.id = r.id
          /\ r.is_corrupted /\ r.width = Null
          /\ existsSync(disk, r.storage_path)
          /\ disk[r.filename] = "bad"
          /\ ~r2.is_corrupted

\* C26: of successful runs in a row with nothing changed from outside, the
\* third and every later one reports addedFromDisk = markedMissing = healed
\* = 0 and leaves the table as it found it.
C26_ConvergesInTwoRuns ==
    (Completed /\ streak >= 3) =>
        /\ Summary.addedFromDisk = 0
        /\ Summary.markedMissing = 0
        /\ Summary.healed = 0
        /\ store = before[1].store

\* The third successful run in a row has completed on a table that holds a
\* row adopted for an undecodable file (run one) and healed since (run two).
C26_Witness ==
    /\ Completed
    /\ streak >= 3
    /\ \E r \in store :
          /\ r.width = Null
          /\ ~r.is_corrupted
          /\ disk[r.filename] = "bad"

\* The listed files of the beginning to which no row of the snapshot refers.
ListedOrphans ==
    {n \in ListDiskFiles(before[1].disk) : RowsOf(before[1].store, n) = {}}

\* C27: for every completed sequential run the table holds totalDbBefore +
\* addedFromDisk rows, addedFromDisk is at most totalDisk, markedMissing +
\* healed is at most totalDbBefore, and addedFromDisk is the number of listed
\* files whose path is in no row of the snapshot.
C27_CountArithmetic ==
    Completed =>
        /\ Cardinality(store) = Summary.totalDbBefore + Summary.addedFromDisk
        /\ Summary.addedFromDisk <= Summary.totalDisk
        /\ Summary.markedMissing + Summary.healed <= Summary.totalDbBefore
        /\ Summary.addedFromDisk = Cardinality(ListedOrphans)

\* A run has completed that listed two files, one of them tracked, and found
\* one row: it added one row and healed the other.
C27_Witness ==
    /\ Completed
    /\ Summary.totalDisk = 2
    /\ Summary.totalDbBefore = 1
    /\ Summary.addedFromDisk = 1
    /\ Summary.healed = 1
    /\ Cardinality(store) = 2

\* C29: a tracked row that is not flagged, whose file is removed, sync run,
\* a file put back at the same path and sync run again, is again not flagged
\* and has its id and every other field as before; the file put back is never
\* adopted, so the table has as many rows as before the removal. (Whenever a
\* run has completed with the file in place the table is the one row it held
\* at first, and at no time does it hold a second row.)
C29_RemoveRestore ==
    /\ Cardinality(store) = 1
    /\ (Completed /\ \A r \in store : existsSync(disk, r.storage_path)) =>
           \A r \in store : r = TrackedRow(r.filename)

\* The run after the file was put back, with bytes sharp cannot decode, has
\* completed: it healed the row, which the run after the removal had flagged,
\* and added nothing.
C29_Witness ==
    /\ Completed
    /\ Summary.healed = 1
    /\ Summary.addedFromDisk = 0
    /\ Summary.totalDisk = 1
    /\ \E r \in before[1].store : r.is_corrupted /\ r.id = 1
    /\ \A r \in store : r = TrackedRow(r.filename) /\ disk[r.filename] = "bad"

\* C23: every adopted row has the mime type of the extension its file name
\* ends in, letter case aside (.png image/png, .tif and .tiff image/tiff,
\* .jpg and .jpeg image/jpeg), which is also the mime type the adoption gives
\* the name written in lower case.
C23_MimeByExtension ==
    \A r \in store :
        /\ r.mime_type = MimeOfExtension(r.filename)
        /\ r.mime_type = InferMime(toLowerCase(r.filename))

\* The rows of the beginning, not flagged when was is FALSE and flagged when
\* it is TRUE, whose file the directory of the beginning holds (present) or
\* does not hold.
SnapshotRows(was, present) ==
    {r \in before[1].store :
        /\ r.is_corrupted = was
        /\ existsSync(before[1].disk, r.storage_path) = present}

\* C21: the flag decisions and counts of a run depend on the directory as it
\* was listed, whatever is added to or removed from the storage root after
\* the listing: every row of the snapshot ends flagged exactly if the listed
\* directory did not hold its file, markedMissing counts the unflagged rows
\* whose file it did not hold and healed the flagged rows whose file it held.
C21_DecidesFromSnapshot ==
    Completed =>
        /\ \A r \in before[1].store :
              \E r2 \in store : r2.id = r.id /\ FullyUpdated(r, r2)
        /\ Summary.markedMissing = Cardinality(SnapshotRows(FALSE, FALSE))
        /\ Summary.healed = Cardinality(SnapshotRows(TRUE, TRUE))

\* The orphans of the listing whose file is gone and that have no row.
VanishedOrphans ==
    {n \in ListedOrphans : disk[n] = "none" /\ RowsOf(store, n) = {}}

\* C24: when statSync fails on an orphan of the listing (its file was removed
\* after the listing) the run ends there: it never reaches the presence loop
\* or the summary, no row is flagged or healed, the response is the 500 with
\* only an error message, the rows inserted for other orphans before the
\* failure stay, and no row is inserted after it.
C24_StatFailureAborts ==
    /\ [](VanishedOrphans # {} =>
            /\ pc[1] \in {"adopt", "failed"}
            /\ Flipped(TRUE) \cup Flipped(FALSE) = {}
            /\ Aborted =>
                  /\ response[1].status = 500
                  /\ DOMAIN response[1].body = {"error"})
    /\ [][pc'[1] = "failed" => store' = store]_vars

\* A run has failed on an orphan whose file was removed after the listing,
\* after it had inserted a row for one orphan and before it reached a third,
\* whose file is still there without a row.
C24_Witness ==
    /\ Aborted
    /\ VanishedOrphans # {}
    /\ InsertedRows # {}
    /\ \E n \in ListedOrphans : disk[n] # "none" /\ RowsOf(store, n) = {}


\* The writes whose file the run of process 1 listed as an orphan and has been
\* through, and whose request has inserted its row: the snapshot of the table
\* was taken before that INSERT and the listing after the file was written.
CaughtBetween ==
    {w \in InsertedWrites :
        /\ w.name \in diskFiles[1] \ diskTodo[1]
        /\ \A r \in dbRows[1] : r.storage_path # fullPath(w.name)}

\* C28: nothing keeps an upload or a crop apart from a sync run: when the run
\* takes its snapshot of the table before the writer's INSERT and lists the
\* directory after the writer stored its file, the run adopts the file and
\* the writer inserts its own row as well, so two rows share the file's
\* storage_path, one of them the writer's.
C28_WriterOverlapDuplicates ==
    \A w \in CaughtBetween :
        /\ Cardinality(RowsOf(store, w.name)) >= 2
        /\ \E r \in RowsOf(store, w.name) : r.id = w.id
        /\ \E r \in RowsOf(store, w.name) : r.id # w.id /\ r.filename = w.name

\* An upload stored its file, a run that had seen no row for it adopted the
\* file and is about to answer with addedFromDisk = 1, and the upload has
\* inserted its row after the adoption: the table holds two rows with that
\* storage_path.
C28_Witness ==
    /\ pc[1] = "respond"
    /\ addedFromDisk[1] = 1
    /\ \E w \in CaughtBetween :
          /\ w.req = "upload"
          /\ Cardinality(RowsOf(store, w.name)) = 2
          /\ \E r \in RowsOf(store, w.name) :
                r.id = w.id /\ r.id = MaxOf({r2.id : r2 \in store})

=============================================================================
